---- MODULE Spec2Model ----
(***************************************************************************)
(* A model of music_player.py: the playlist (doubly linked list), the      *)
(* title trie, the back stack, the play counts, the pygame music engine    *)
(* and the Tk handlers of MusicPlayerApp that drive them.                  *)
(*                                                                         *)
(* Strings that the program inspects character by character (file names,  *)
(* titles, prefixes) are sequences of code points, so that lower(),        *)
(* endswith(), splitext() and the string order are computed, not assumed.  *)
(* A Node object is its index in dll.nodes; None is 0.                     *)
(***************************************************************************)
EXTENDS Integers, Sequences, FiniteSets, TLC

VARIABLES
    dll,            \* self.dll: [nodes, head, tail, size]
    history_stack,  \* self.history_stack: sequence of nodes
    play_counts,    \* self.play_counts: title -> count
    trie,           \* self.trie: path -> [children, ends]
    shuffle_on,     \* self.shuffle_on
    current,        \* self.current: node or None
    node_by_title,  \* self.node_by_title: title -> node
    paused,         \* self.engine.paused
    mixer,          \* pygame.mixer.music: "idle", "playing" or "paused"
    playlist,       \* self.playlist (Listbox): the titles shown
    sel,            \* self.playlist.curselection(): an index or 0
    status,         \* self.status (Label): the last status text
    msg,            \* the messagebox the last handler showed, "" if none
    tree,           \* the Treeview of the Top Played window: <<title, count>> rows
    timers,         \* pending self.after(500, self._poll_playback) callbacks
    inserted,       \* the words inserted into self.trie since it was created
    trip,           \* history variable: the next_song / prev_song pair under way
    starts,         \* history variable: load_and_play calls that returned, per title
    polls,          \* history variable: parity of the polls run, where they are counted
    ret             \* the last Trie call and what it returned (Trie harness)

vars == <<dll, history_stack, play_counts, trie, shuffle_on, current,
          node_by_title, paused, mixer, playlist, sel, status, msg, tree,
          timers, inserted, trip, starts, polls, ret>>

None == 0

----------------------------------------------------------------------------
(* Bounds of the model *)

\* plays (successful load_and_play calls) in one behaviour
MaxPlays == 3
\* depth of the back stack (the program applies no cap)
MaxHist == 2
\* case variants of the five-letter title that the Trie harness inserts
MaxVariants == 21
\* the small limits the Trie harness passes to prefix_search
MaxLimit == 2
\* the largest top_k the Ledger harness passes to show_top_played
MaxK == 4
\* Node objects the list harness creates
MaxNodes == 3

----------------------------------------------------------------------------
(* Strings as sequences of code points *)

InSeq(x, s) == \E i \in 1..Len(s) : s[i] = x

\* str.lower() on ASCII letters
LowerCh(c) == IF c >= 65 /\ c <= 90 THEN c + 32 ELSE c

LowerStr(s) == [i \in 1..Len(s) |-> LowerCh(s[i])]

\* str.endswith(suffix)
EndsWith(s, suf) ==
    /\ Len(s) >= Len(suf)
    /\ SubSeq(s, Len(s) - Len(suf) + 1, Len(s)) = suf

\* Python's order on str: lexicographic by code point
StrLess(s, t) ==
    \E k \in 1..(Len(t)) :
        /\ \A i \in 1..(k - 1) : i <= Len(s) /\ s[i] = t[i]
        /\ \/ k = Len(s) + 1
           \/ k <= Len(s) /\ s[k] < t[k]

\* os.path.join(folder, f)
PathJoin(folder, f) == folder \o <<47>> \o f

\* os.path.basename(p): what follows the last "/"
Basename(p) ==
    LET slashes == {i \in 1..Len(p) : p[i] = 47}
        last == IF slashes = {} THEN 0
                ELSE CHOOSE i \in slashes : \A j \in slashes : j <= i
    IN SubSeq(p, last + 1, Len(p))

\* os.path.splitext(name)[0]: cut at the last dot, unless only dots precede it
SplitextRoot(name) ==
    LET dots == {i \in 1..Len(name) : name[i] = 46}
        last == IF dots = {} THEN 0
                ELSE CHOOSE i \in dots : \A j \in dots : j <= i
    IN IF last = 0 \/ (\A i \in 1..(last - 1) : name[i] = 46)
       THEN name
       ELSE SubSeq(name, 1, last - 1)

\* AUDIO_EXTS: ".mp3", ".wav", ".ogg"
AUDIO_EXTS == << <<46, 109, 112, 51>>, <<46, 119, 97, 118>>, <<46, 111, 103, 103>> >>

\* p.lower().endswith(AUDIO_EXTS)
IsAudio(p) == \E i \in 1..Len(AUDIO_EXTS) : EndsWith(LowerStr(p), AUDIO_EXTS[i])

----------------------------------------------------------------------------
(* DoublyLinkedList *)

EmptyDll == [nodes |-> <<>>, head |-> None, tail |-> None, size |-> 0]

\* DoublyLinkedList.append: the new node is Len(d.nodes) + 1
DllAppend(d, title, path) ==
    LET n == Len(d.nodes) + 1
        node == [title |-> title, path |-> path, prev |-> None, next |-> None]
    IN IF d.tail = None
       THEN [nodes |-> Append(d.nodes, node), head |-> n, tail |-> n,
             size |-> d.size + 1]
       ELSE [nodes |-> Append([d.nodes EXCEPT ![d.tail].next = n],
                              [node EXCEPT !.prev = d.tail]),
             head |-> d.head, tail |-> n, size |-> d.size + 1]

\* DoublyLinkedList.clear: the node objects themselves are left as they are
DllClear(d) == [d EXCEPT !.head = None, !.tail = None, !.size = 0]

RECURSIVE Walk(_, _, _)
Walk(d, cur, fuel) ==
    IF cur = None \/ fuel = 0 THEN <<>>
    ELSE <<cur>> \o Walk(d, d.nodes[cur].next, fuel - 1)

\* DoublyLinkedList.to_list: follow next from head
ToList(d) == Walk(d, d.head, Len(d.nodes))

\* the loop of from_nodes that links each node without detaching it first
RECURSIVE FromNodesLoop_NoDetach(_, _, _)
FromNodesLoop_NoDetach(d, nodes, prev) ==
    IF nodes = <<>> THEN [d EXCEPT !.tail = prev]
    ELSE LET n == Head(nodes)
             d2 == IF d.head = None THEN [d EXCEPT !.head = n] ELSE d
             d3 == IF prev # None
                   THEN [d2 EXCEPT !.nodes[prev].next = n, !.nodes[n].prev = prev]
                   ELSE d2
         IN FromNodesLoop_NoDetach(d3, Tail(nodes), n)

\* the loop of from_nodes: detach n, make it the head if there is none, link
\* it after prev; at the end the last node is the tail
RECURSIVE FromNodesLoop(_, _, _)
FromNodesLoop(d, nodes, prev) ==
    IF nodes = <<>> THEN [d EXCEPT !.tail = prev]
    ELSE LET n == Head(nodes)
             d1 == [d EXCEPT !.nodes[n].prev = None, !.nodes[n].next = None]
             d2 == IF d1.head = None THEN [d1 EXCEPT !.head = n] ELSE d1
             d3 == IF prev # None
                   THEN [d2 EXCEPT !.nodes[prev].next = n, !.nodes[n].prev = prev]
                   ELSE d2
         IN FromNodesLoop(d3, Tail(nodes), n)

\* DoublyLinkedList.from_nodes
DllFromNodes(d, nodes) ==
    [FromNodesLoop(DllClear(d), nodes, None) EXCEPT !.size = Len(nodes)]

----------------------------------------------------------------------------
(* Trie *)

\* TrieNode(): no children, no titles ending here
EmptyTrieNode == [children |-> <<>>, ends |-> <<>>]

\* Trie(): the root alone.  A TrieNode is named by the lowercased path to it;
\* children keeps the dict's insertion order.
EmptyTrie == [p \in {<<>>} |-> EmptyTrieNode]

\* the cap of node.ends: len(node.ends) > 20 pops the oldest
EndsCap == 20

\* node.ends after insert reached the terminal node
EndsAfterInsert(ends, word) ==
    IF InSeq(word, ends) THEN ends
    ELSE LET e == Append(ends, word)
         IN IF Len(e) > EndsCap THEN Tail(e) ELSE e

\* Trie.insert descending by the characters as given, without lower()
TrieInsert_NoLower(t, word) ==
    LET Pre(k) == SubSeq(word, 1, k)
        old(p) == IF p \in DOMAIN t THEN t[p] ELSE EmptyTrieNode
        onPath(p) == Len(p) < Len(word) /\ p = Pre(Len(p))
        kids(p) ==
            IF onPath(p) /\ ~InSeq(word[Len(p) + 1], old(p).children)
            THEN Append(old(p).children, word[Len(p) + 1])
            ELSE old(p).children
        ends(p) == IF p = word THEN EndsAfterInsert(old(p).ends, word)
                   ELSE old(p).ends
    IN [p \in (DOMAIN t) \cup {Pre(k) : k \in 0..Len(word)} |->
            [children |-> kids(p), ends |-> ends(p)]]

\* Trie.insert
TrieInsert(t, word) ==
    LET lw == LowerStr(word)
        Pre(k) == SubSeq(lw, 1, k)
        old(p) == IF p \in DOMAIN t THEN t[p] ELSE EmptyTrieNode
        onPath(p) == Len(p) < Len(lw) /\ p = Pre(Len(p))
        kids(p) ==
            IF onPath(p) /\ ~InSeq(lw[Len(p) + 1], old(p).children)
            THEN Append(old(p).children, lw[Len(p) + 1])
            ELSE old(p).children
        ends(p) == IF p = lw THEN EndsAfterInsert(old(p).ends, word)
                   ELSE old(p).ends
    IN [p \in (DOMAIN t) \cup {Pre(k) : k \in 0..Len(lw)} |->
            [children |-> kids(p), ends |-> ends(p)]]

\* the descent of prefix_search: the node reached, or "none" when a character
\* has no child
RECURSIVE Descend(_, _, _)
Descend(t, lp, k) ==
    IF k = Len(lp) THEN [found |-> TRUE, node |-> lp]
    ELSE IF ~InSeq(lp[k + 1], t[SubSeq(lp, 1, k)].children)
         THEN [found |-> FALSE, node |-> <<>>]
         ELSE Descend(t, lp, k + 1)

\* the loop of prefix_search with the children put in front of the queue
\* (a depth-first walk)
RECURSIVE Collect_DepthFirst(_, _, _, _)
Collect_DepthFirst(t, q, results, limit) ==
    IF q = <<>> \/ ~(Len(results) < limit) THEN results
    ELSE LET n == Head(q)
             kids == [i \in 1..Len(t[n].children) |-> Append(n, t[n].children[i])]
         IN Collect_DepthFirst(t, kids \o Tail(q), results \o t[n].ends, limit)

\* the queue loop of prefix_search: pop the front, take its ends, queue its
\* children in dict order
RECURSIVE Collect(_, _, _, _)
Collect(t, q, results, limit) ==
    IF q = <<>> \/ ~(Len(results) < limit) THEN results
    ELSE LET n == Head(q)
             kids == [i \in 1..Len(t[n].children) |-> Append(n, t[n].children[i])]
         IN Collect(t, Tail(q) \o kids, results \o t[n].ends, limit)

\* the dedupe loop of prefix_search
RECURSIVE Dedupe(_, _, _)
Dedupe(results, out, limit) ==
    IF results = <<>> THEN out
    ELSE LET w == Head(results)
             out1 == IF InSeq(w, out) THEN out ELSE Append(out, w)
         IN IF Len(out1) >= limit THEN out1
            ELSE Dedupe(Tail(results), out1, limit)

\* Trie.prefix_search
PrefixSearch(t, prefix, limit) ==
    LET d == Descend(t, LowerStr(prefix), 0)
    IN IF ~d.found THEN <<>>
       ELSE Dedupe(Collect(t, <<d.node>>, <<>>, limit), <<>>, limit)

----------------------------------------------------------------------------
(* load_folder's scan and sort *)

\* the permutations of a set: os.listdir returns the names in arbitrary order
Perms(S) ==
    {f \in [1..Cardinality(S) -> S] : \A i, j \in 1..Cardinality(S) : f[i] = f[j] => i = j}

\* songs = [(splitext(basename(p))[0], p) for p in files if p.lower().endswith(AUDIO_EXTS)]
RECURSIVE Songs(_, _)
Songs(folder, listing) ==
    IF listing = <<>> THEN <<>>
    ELSE LET p == PathJoin(folder, Head(listing))
             rest == Songs(folder, Tail(listing))
         IN IF IsAudio(p)
            THEN <<[title |-> SplitextRoot(Basename(p)), path |-> p]>> \o rest
            ELSE rest

\* the sort step comparing the titles as they are, without lower()
StableInsert_RawOrder(sorted, x) ==
    LET later == {i \in 1..Len(sorted) : StrLess(x.title, sorted[i].title)}
        pos == IF later = {} THEN Len(sorted) + 1
               ELSE CHOOSE i \in later : \A j \in later : i <= j
    IN SubSeq(sorted, 1, pos - 1) \o <<x>> \o SubSeq(sorted, pos, Len(sorted))

\* insert x after the last element whose key is not greater (a stable sort step)
StableInsert(sorted, x) ==
    LET later == {i \in 1..Len(sorted) :
                    StrLess(LowerStr(x.title), LowerStr(sorted[i].title))}
        pos == IF later = {} THEN Len(sorted) + 1
               ELSE CHOOSE i \in later : \A j \in later : i <= j
    IN SubSeq(sorted, 1, pos - 1) \o <<x>> \o SubSeq(sorted, pos, Len(sorted))

\* sorted(songs, key=lambda x: x[0].lower())
RECURSIVE SortedSongs(_)
SortedSongs(songs) ==
    IF songs = <<>> THEN <<>>
    ELSE StableInsert(SortedSongs(SubSeq(songs, 1, Len(songs) - 1)),
                      songs[Len(songs)])

\* the "Fill data structures" loop of load_folder, from the cleared structures
RECURSIVE Fill(_, _)
Fill(acc, songs) ==
    IF songs = <<>> THEN acc
    ELSE LET s == Head(songs)
             d == DllAppend(acc.dll, s.title, s.path)
             nbt == [t \in (DOMAIN acc.node_by_title) \cup {s.title} |->
                        IF t = s.title THEN d.tail ELSE acc.node_by_title[t]]
         IN Fill([dll |-> d,
                  trie |-> TrieInsert(acc.trie, s.title),
                  node_by_title |-> nbt,
                  playlist |-> Append(acc.playlist, s.title)],
                 Tail(songs))

----------------------------------------------------------------------------
(* The folders the file dialog can return *)

\* "/A": B.mp3, a.WAV, c.ogg, n.txt   "/B": a.mp3, a.ogg (one title twice)
\* "/C": c.mp3, c.txt                  "/D": n.txt (no audio file)
Folders ==
    { [path |-> <<47, 65>>,
       files |-> { <<66, 46, 109, 112, 51>>, <<97, 46, 87, 65, 86>>,
                   <<99, 46, 111, 103, 103>>, <<110, 46, 116, 120, 116>> }],
      [path |-> <<47, 66>>,
       files |-> { <<97, 46, 109, 112, 51>>, <<97, 46, 111, 103, 103>> }],
      [path |-> <<47, 67>>,
       files |-> { <<99, 46, 109, 112, 51>>, <<99, 46, 116, 120, 116>> }],
      [path |-> <<47, 68>>,
       files |-> { <<110, 46, 116, 120, 116>> }] }

----------------------------------------------------------------------------
(* State after MusicPlayerApp.__init__ *)

Status(kind, arg) == [kind |-> kind, arg |-> arg]

\* no next_song was the last handler
NoTrip == [stage |-> 0, from |-> None, hist |-> <<>>, ok |-> FALSE]

NoCall == [call |-> "none", word |-> <<>>, limit |-> 0, out |-> <<>>]

Init ==
    /\ dll = EmptyDll
    /\ history_stack = <<>>
    /\ play_counts = <<>>
    /\ trie = EmptyTrie
    /\ shuffle_on = FALSE
    /\ current = None
    /\ node_by_title = <<>>
    /\ paused = FALSE
    /\ mixer = "idle"
    /\ playlist = <<>>
    /\ sel = 0
    /\ status = Status("Load a folder to begin", <<>>)
    /\ msg = ""
    /\ tree = <<>>
    /\ timers = 1
    /\ inserted = {}
    /\ trip = NoTrip
    /\ starts = <<>>
    /\ polls = 0
    /\ ret = NoCall

----------------------------------------------------------------------------
(* MusicEngine over pygame.mixer.music *)

\* MusicEngine.is_busy: get_busy() is true while the music plays.  (Before
\* pygame 2.0.1 it is also true while paused; the program reads it only with
\* engine.paused false or in a conjunction with it, where the two agree.)
IsBusy == mixer = "playing"

\* MusicEngine.pause
EnginePause == mixer' = (IF mixer = "playing" THEN "paused" ELSE mixer) /\ paused' = TRUE

\* MusicEngine.resume
EngineResume == mixer' = (IF mixer = "paused" THEN "playing" ELSE mixer) /\ paused' = FALSE

\* MusicEngine.stop
EngineStop == mixer' = "idle" /\ paused' = FALSE

\* MusicEngine.load_and_play when music.load succeeds; when it raises, the
\* exception leaves before play() and before paused is assigned
EngineLoadAndPlay == mixer' = "playing" /\ paused' = FALSE

----------------------------------------------------------------------------
(* Playback *)

RECURSIVE SumCounts(_, _)
SumCounts(pc, titles) ==
    IF titles = {} THEN 0
    ELSE LET t == CHOOSE x \in titles : TRUE
         IN pc[t] + SumCounts(pc, titles \ {t})

TotalPlays == SumCounts(play_counts, DOMAIN play_counts)

\* self.play_counts[title] = 1, whatever the count was
CountsAfterPlay_Reset(pc, title) ==
    [t \in (DOMAIN pc) \cup {title} |-> IF t = title THEN 1 ELSE pc[t]]

\* self.play_counts.get(title, 0) + 1
CountsAfterPlay(pc, title) ==
    [t \in (DOMAIN pc) \cup {title} |->
        IF t = title THEN (IF title \in DOMAIN pc THEN pc[title] ELSE 0) + 1
        ELSE pc[t]]

\* history variable: one more load_and_play that returned, for title
StartsAfter(st, title) ==
    [t \in (DOMAIN st) \cup {title} |->
        (IF t \in DOMAIN st THEN st[t] ELSE 0) + (IF t = title THEN 1 ELSE 0)]

\* _select_in_listbox: select the first row that shows the title
SelectInListbox(pl, s, title) ==
    LET rows == {i \in 1..Len(pl) : pl[i] = title}
    IN IF rows = {} THEN s ELSE CHOOSE i \in rows : \A j \in rows : i <= j

\* play_node that records the play and moves current before the load is tried
PlayNode_RecordBeforeLoad(node, ok) ==
    IF node = None
    THEN UNCHANGED <<mixer, paused, play_counts, starts, current, sel, status>> /\ msg' = ""
    ELSE /\ TotalPlays < MaxPlays
         /\ play_counts' = CountsAfterPlay(play_counts, dll.nodes[node].title)
         /\ current' = node
         /\ IF ok
            THEN /\ EngineLoadAndPlay
                 /\ starts' = StartsAfter(starts, dll.nodes[node].title)
                 /\ sel' = SelectInListbox(playlist, sel, dll.nodes[node].title)
                 /\ status' = Status("Playing", dll.nodes[node].title)
                 /\ msg' = ""
            ELSE /\ msg' = "Playback error"
                 /\ UNCHANGED <<mixer, paused, starts, sel, status>>

\* play_node(node), where ok says whether engine.load_and_play returned
PlayNode(node, ok) ==
    IF node = None
    THEN UNCHANGED <<mixer, paused, play_counts, starts, current, sel, status>> /\ msg' = ""
    ELSE IF ~ok
    THEN /\ msg' = "Playback error"
         /\ UNCHANGED <<mixer, paused, play_counts, starts, current, sel, status>>
    ELSE /\ TotalPlays < MaxPlays
         /\ EngineLoadAndPlay
         /\ starts' = StartsAfter(starts, dll.nodes[node].title)
         /\ play_counts' = CountsAfterPlay(play_counts, dll.nodes[node].title)
         /\ current' = node
         /\ sel' = SelectInListbox(playlist, sel, dll.nodes[node].title)
         /\ status' = Status("Playing", dll.nodes[node].title)
         /\ msg' = ""

\* self.history_stack.append(self.current)
PushCurrent ==
    /\ Len(history_stack) < MaxHist
    /\ history_stack' = Append(history_stack, current)

\* the title play_selected resolves: the selected row, else the first row
SelectedTitle ==
    IF sel = 0 THEN (IF Len(playlist) > 0 THEN playlist[1] ELSE <<>>)
    ELSE playlist[sel]

\* self.node_by_title.get(title)
NodeByTitle(title) ==
    IF title \in DOMAIN node_by_title THEN node_by_title[title] ELSE None

\* play_selected
PlaySelectedStep(ok) ==
    LET title == SelectedTitle
        node == NodeByTitle(title)
    IN IF title = <<>> \/ node = None
       THEN UNCHANGED <<history_stack, mixer, paused, play_counts, starts, current,
                        sel, status>> /\ msg' = ""
       ELSE /\ IF current # None /\ current # node
               THEN PushCurrent
               ELSE UNCHANGED history_stack
            /\ PlayNode(node, ok)

PlaySelected ==
    /\ \E ok \in BOOLEAN : PlaySelectedStep(ok)
    /\ UNCHANGED <<dll, trie, node_by_title, playlist, shuffle_on, tree, timers, polls, inserted, ret>>
    /\ trip' = NoTrip

\* the user clicks a row of the playlist
SelectRow ==
    /\ \E i \in 1..Len(playlist) : sel' = i
    /\ msg' = ""
    /\ UNCHANGED <<dll, history_stack, play_counts, starts, trie, shuffle_on, current,
                   node_by_title, paused, mixer, playlist, status, tree,
                   timers, polls, inserted, ret>>
    /\ trip' = NoTrip

\* _toggle_pause
TogglePause ==
    /\ IF IsBusy /\ ~paused
       THEN EnginePause /\ status' = Status("Paused", <<>>)
       ELSE EngineResume /\ status' = Status("Resumed", <<>>)
    /\ msg' = ""
    /\ UNCHANGED <<dll, history_stack, play_counts, starts, trie, shuffle_on, current,
                   node_by_title, playlist, sel, tree, timers, polls, inserted, ret>>
    /\ trip' = NoTrip

\* stop_song
StopSong ==
    /\ EngineStop
    /\ status' = Status("Stopped", <<>>)
    /\ msg' = ""
    /\ UNCHANGED <<dll, history_stack, play_counts, starts, trie, shuffle_on, current,
                   node_by_title, playlist, sel, tree, timers, polls, inserted, ret>>
    /\ trip' = NoTrip

\* _random_next choosing among all the nodes, the current one included
RandomNext_SelfPick ==
    LET nodes == ToList(dll)
    IN IF nodes = <<>> THEN {None} ELSE {nodes[i] : i \in 1..Len(nodes)}

\* _random_next: the values random.choice can return
RandomNext ==
    LET nodes == ToList(dll)
        all == {nodes[i] : i \in 1..Len(nodes)}
    IN IF nodes = <<>> THEN {None}
       ELSE IF current = None THEN all
       ELSE IF Len(nodes) = 1 THEN {None}
       ELSE IF all \ {current} # {} THEN all \ {current} ELSE {None}

\* the nxt of next_song wrapping from the tail to the head
NextTargets_Wrap ==
    IF shuffle_on THEN RandomNext
    ELSE {IF current # None
          THEN (IF dll.nodes[current].next # None THEN dll.nodes[current].next
                ELSE dll.head)
          ELSE dll.head}

\* the nxt of next_song
NextTargets ==
    IF shuffle_on THEN RandomNext
    ELSE {IF current # None THEN dll.nodes[current].next ELSE dll.head}

\* next_song
NextSongStep(nxt, ok) ==
    IF nxt # None
    THEN /\ IF current # None THEN PushCurrent ELSE UNCHANGED history_stack
         /\ PlayNode(nxt, ok)
    ELSE /\ status' = Status("End of playlist", <<>>)
         /\ UNCHANGED <<history_stack, mixer, paused, play_counts, starts, current, sel>> /\ msg' = ""

\* history variable: a next_song without shuffle from a current track that
\* has a successor starts a trip, remembering the track and the back stack
TripAfterNext(nxt, ok) ==
    IF ~shuffle_on /\ current # None /\ nxt # None
    THEN [stage |-> 1, from |-> current, hist |-> history_stack, ok |-> ok]
    ELSE NoTrip

\* history variable: a prev_song right after that next_song completes the trip
TripAfterPrev(ok) ==
    IF trip.stage = 1
    THEN [trip EXCEPT !.stage = 2, !.ok = trip.ok /\ ok]
    ELSE NoTrip

NextSong ==
    /\ \E nxt \in NextTargets : \E ok \in BOOLEAN :
           NextSongStep(nxt, ok) /\ trip' = TripAfterNext(nxt, ok)
    /\ UNCHANGED <<dll, trie, node_by_title, playlist, shuffle_on, tree, timers, polls, inserted, ret>>

\* prev_song that leaves the entry it plays on the stack
PrevSongStep_NoPop(ok) ==
    IF history_stack # <<>>
    THEN /\ UNCHANGED history_stack
         /\ PlayNode(history_stack[Len(history_stack)], ok)
    ELSE /\ status' = Status("No previous song", <<>>)
         /\ UNCHANGED <<history_stack, mixer, paused, play_counts, starts, current, sel>> /\ msg' = ""

\* prev_song
PrevSongStep(ok) ==
    IF history_stack # <<>>
    THEN /\ history_stack' = SubSeq(history_stack, 1, Len(history_stack) - 1)
         /\ PlayNode(history_stack[Len(history_stack)], ok)
    ELSE /\ status' = Status("No previous song", <<>>)
         /\ UNCHANGED <<history_stack, mixer, paused, play_counts, starts, current, sel>> /\ msg' = ""

PrevSong ==
    /\ \E ok \in BOOLEAN : PrevSongStep(ok) /\ trip' = TripAfterPrev(ok)
    /\ UNCHANGED <<dll, trie, node_by_title, playlist, shuffle_on, tree, timers, polls, inserted, ret>>

\* _toggle_shuffle
ToggleShuffle ==
    /\ shuffle_on' = ~shuffle_on
    /\ status' = Status(IF shuffle_on' THEN "Shuffle ON" ELSE "Shuffle OFF", <<>>)
    /\ msg' = ""
    /\ UNCHANGED <<dll, history_stack, play_counts, starts, trie, current, node_by_title,
                   paused, mixer, playlist, sel, tree, timers, polls, inserted, ret>>
    /\ trip' = NoTrip

\* the music plays to its end: get_busy() turns false
TrackEnds ==
    /\ mixer = "playing"
    /\ mixer' = "idle"
    /\ UNCHANGED <<dll, history_stack, play_counts, starts, trie, shuffle_on, current,
                   node_by_title, paused, playlist, sel, status, msg, tree,
                   timers, polls, inserted, ret>>
    /\ UNCHANGED trip

\* _poll_playback that re-arms and never calls next_song
PollPlaybackStep_NoAdvance ==
    /\ timers > 0
    /\ UNCHANGED <<history_stack, mixer, paused, play_counts, starts, current,
                   sel, status, trip>>
    /\ msg' = ""
    /\ timers' = (timers - 1) + 1
    /\ UNCHANGED <<dll, trie, node_by_title, playlist, shuffle_on, tree, inserted, ret>>

\* _poll_playback that re-arms at the end of the try block instead of in a
\* finally, so that a tick whose advance failed arms nothing
PollPlaybackStep_RearmUnlessFailed ==
    /\ timers > 0
    /\ IF ~paused /\ current # None /\ ~IsBusy
       THEN \E nxt \in NextTargets : \E ok \in BOOLEAN :
                NextSongStep(nxt, ok) /\ trip' = TripAfterNext(nxt, ok)
       ELSE /\ UNCHANGED <<history_stack, mixer, paused, play_counts, starts, current,
                           sel, status, trip>>
            /\ msg' = ""
    /\ timers' = (timers - 1) + (IF msg' = "Playback error" THEN 0 ELSE 1)
    /\ UNCHANGED <<dll, trie, node_by_title, playlist, shuffle_on, tree, inserted, ret>>

\* _poll_playback: one pending callback runs and, in its finally, re-arms
PollPlaybackStep ==
    /\ timers > 0
    /\ IF ~paused /\ current # None /\ ~IsBusy
       THEN \E nxt \in NextTargets : \E ok \in BOOLEAN :
                NextSongStep(nxt, ok) /\ trip' = TripAfterNext(nxt, ok)
       ELSE /\ UNCHANGED <<history_stack, mixer, paused, play_counts, starts, current,
                           sel, status, trip>>
            /\ msg' = ""
    /\ timers' = (timers - 1) + 1
    /\ UNCHANGED <<dll, trie, node_by_title, playlist, shuffle_on, tree, inserted, ret>>

\* a poll, not counted
PollPlayback == PollPlaybackStep /\ UNCHANGED polls

\* a poll, counted
PollTick == PollPlaybackStep /\ polls' = 1 - polls

----------------------------------------------------------------------------
(* Folder / Playlist *)

\* what load_folder computes from the folder the dialog returned (<<>>:
\* cancelled) and the order in which os.listdir named its files: the sorted
\* songs and the structures the fill loop builds from the cleared ones.  The Node
\* objects of the cleared list are referenced by nothing afterwards, so the
\* new list numbers its nodes from 1 again.
ScanFolder(folder, listing) ==
    LET songs == SortedSongs(Songs(folder, listing))
        filled == Fill([dll |-> EmptyDll, trie |-> EmptyTrie,
                        node_by_title |-> <<>>, playlist |-> <<>>],
                       songs)
    IN [folder |-> folder, songs |-> songs, dll |-> filled.dll,
        trie |-> filled.trie, node_by_title |-> filled.node_by_title,
        playlist |-> filled.playlist]

\* the scans of every folder under every listing order, and of a cancelled dialog
FolderScans ==
    {ScanFolder(<<>>, <<>>)} \cup
    UNION {{ScanFolder(f.path, listing) : listing \in Perms(f.files)} : f \in Folders}

\* load_folder that rebuilds the list and leaves the back stack as it is
LoadFolder_KeepHistory(scan) ==
    IF scan.folder = <<>>
    THEN UNCHANGED vars
    ELSE IF scan.songs = <<>>
    THEN /\ msg' = "No audio"
         /\ UNCHANGED <<dll, history_stack, play_counts, starts, trie, shuffle_on,
                        current, node_by_title, paused, mixer, playlist, sel,
                        status, tree, timers, polls, inserted, ret>>
         /\ trip' = NoTrip
    ELSE /\ EngineStop
         /\ current' = None
         /\ sel' = 0
         /\ dll' = scan.dll
         /\ trie' = scan.trie
         /\ node_by_title' = scan.node_by_title
         /\ playlist' = scan.playlist
         /\ inserted' = {scan.songs[i].title : i \in 1..Len(scan.songs)}
         /\ status' = Status("Loaded", <<Len(scan.playlist)>>)
         /\ msg' = ""
         /\ trip' = NoTrip
         /\ UNCHANGED <<history_stack, play_counts, starts, shuffle_on, tree,
                        timers, polls, ret>>

\* load_folder that resets the engine before it looks at the songs
LoadFolder_StopFirst(scan) ==
    IF scan.folder = <<>>
    THEN UNCHANGED vars
    ELSE IF scan.songs = <<>>
    THEN /\ EngineStop
         /\ msg' = "No audio"
         /\ UNCHANGED <<dll, history_stack, play_counts, starts, trie, shuffle_on,
                        current, node_by_title, playlist, sel,
                        status, tree, timers, polls, inserted, ret>>
         /\ trip' = NoTrip
    ELSE /\ EngineStop
         /\ history_stack' = <<>>
         /\ current' = None
         /\ sel' = 0
         /\ dll' = scan.dll
         /\ trie' = scan.trie
         /\ node_by_title' = scan.node_by_title
         /\ playlist' = scan.playlist
         /\ inserted' = {scan.songs[i].title : i \in 1..Len(scan.songs)}
         /\ status' = Status("Loaded", <<Len(scan.playlist)>>)
         /\ msg' = ""
         /\ trip' = NoTrip
         /\ UNCHANGED <<play_counts, starts, shuffle_on, tree, timers, polls, ret>>

\* load_folder
LoadFolder(scan) ==
    IF scan.folder = <<>>
    THEN UNCHANGED vars
    ELSE IF scan.songs = <<>>
    THEN /\ msg' = "No audio"
         /\ UNCHANGED <<dll, history_stack, play_counts, starts, trie, shuffle_on,
                        current, node_by_title, paused, mixer, playlist, sel,
                        status, tree, timers, polls, inserted, ret>>
         /\ trip' = NoTrip
    ELSE /\ EngineStop
         /\ history_stack' = <<>>
         /\ current' = None
         /\ sel' = 0
         /\ dll' = scan.dll
         /\ trie' = scan.trie
         /\ node_by_title' = scan.node_by_title
         /\ playlist' = scan.playlist
         /\ inserted' = {scan.songs[i].title : i \in 1..Len(scan.songs)}
         /\ status' = Status("Loaded", <<Len(scan.playlist)>>)
         /\ msg' = ""
         /\ trip' = NoTrip
         /\ UNCHANGED <<play_counts, starts, shuffle_on, tree, timers, polls, ret>>

LoadFolderCmd == \E scan \in FolderScans : LoadFolder(scan)

----------------------------------------------------------------------------
(* Top Played *)

\* show_top_played(top_k=10)
TopKDefault == 10

Min(a, b) == IF a < b THEN a ELSE b

\* the pops of a heap of (cnt, title): the smallest count first
RECURSIVE HeapPops_Ascending(_, _, _)
HeapPops_Ascending(pc, titles, k) ==
    IF k = 0 \/ titles = {} THEN <<>>
    ELSE LET t == CHOOSE x \in titles : \A y \in titles \ {x} :
                      \/ pc[x] < pc[y]
                      \/ pc[x] = pc[y] /\ StrLess(x, y)
         IN <<[title |-> t, count |-> pc[t]]>>
                \o HeapPops_Ascending(pc, titles \ {t}, k - 1)

\* heapify and heappop on (-cnt, title): the largest count first, equal counts
\* by title
RECURSIVE HeapPops(_, _, _)
HeapPops(pc, titles, k) ==
    IF k = 0 \/ titles = {} THEN <<>>
    ELSE LET t == CHOOSE x \in titles : \A y \in titles \ {x} :
                      \/ pc[x] > pc[y]
                      \/ pc[x] = pc[y] /\ StrLess(x, y)
         IN <<[title |-> t, count |-> pc[t]]>> \o HeapPops(pc, titles \ {t}, k - 1)

\* the items of show_top_played
TopItems(pc, k) == HeapPops(pc, DOMAIN pc, Min(k, Cardinality(DOMAIN pc)))

\* show_top_played: a message when nothing was played, else a window whose
\* tree shows the items
ShowTopPlayed ==
    /\ IF DOMAIN play_counts = {}
       THEN msg' = "No play history yet" /\ UNCHANGED tree
       ELSE tree' = TopItems(play_counts, TopKDefault) /\ msg' = ""
    /\ UNCHANGED <<dll, history_stack, play_counts, starts, trie, shuffle_on, current,
                   node_by_title, paused, mixer, playlist, sel, status, timers, polls,
                   inserted, ret>>
    /\ trip' = NoTrip

\* play_sel of the Top Played window, on the row the user selected
PlaySelStep(row, ok) ==
    LET node == NodeByTitle(tree[row].title)
    IN IF node # None
       THEN /\ IF current # None THEN PushCurrent ELSE UNCHANGED history_stack
            /\ PlayNode(node, ok)
       ELSE UNCHANGED <<history_stack, mixer, paused, play_counts, starts, current,
                        sel, status>> /\ msg' = ""

PlaySel ==
    /\ \E row \in 1..Len(tree) : \E ok \in BOOLEAN : PlaySelStep(row, ok)
    /\ UNCHANGED <<dll, trie, node_by_title, playlist, shuffle_on, tree, timers, polls,
                   inserted, ret>>
    /\ trip' = NoTrip

----------------------------------------------------------------------------
(* The application *)

Next ==
    \/ PollPlayback
    \/ TrackEnds
    \/ LoadFolderCmd
    \/ SelectRow
    \/ NextSong
    \/ PrevSong
    \/ PlaySelected
    \/ PlaySel
    \/ TogglePause
    \/ StopSong
    \/ ToggleShuffle
    \/ ShowTopPlayed

Spec == Init /\ [][Next]_vars

----------------------------------------------------------------------------
(* The poll counted: the handlers around playback, with the Tk main loop   *)
(* running a pending callback whenever one stays pending                   *)

NextPoll ==
    \/ PollTick
    \/ TrackEnds
    \/ LoadFolderCmd
    \/ PlaySelected
    \/ TogglePause
    \/ StopSong

SpecPoll == Init /\ [][NextPoll]_vars /\ WF_vars(PollTick)

----------------------------------------------------------------------------
(* Natural progression: the user loads a folder and starts a track, and    *)
(* from then on gives no command; every load of the poll succeeds, every   *)
(* playing track ends, and the Tk main loop runs the pending poll          *)

\* load_folder, while no track is current
IdleLoadFolder == current = None /\ LoadFolderCmd

\* a click on a row, while no track is current
IdleSelectRow == current = None /\ SelectRow

\* play_selected, while no track is current
IdlePlaySelected == current = None /\ PlaySelected

\* a poll whose load, if it makes one, succeeds
AutoTick == PollTick /\ msg' = ""

NextAuto ==
    \/ IdleLoadFolder
    \/ IdleSelectRow
    \/ IdlePlaySelected
    \/ TrackEnds
    \/ AutoTick

SpecAuto ==
    Init /\ [][NextAuto]_vars /\ WF_vars(AutoTick) /\ WF_vars(TrackEnds)

----------------------------------------------------------------------------
(* The Trie on its own: inserts and searches in any order *)

\* prefix_search(prefix, limit=20)
DefaultLimit == 20

\* _on_search_change: prefix_search(q, limit=30)
SuggestLimit == 30

\* "A", "ab", "b"
ShortWords == { <<65>>, <<97, 98>>, <<98>> }

\* the i-th spelling of "xxxxx": bit k of i puts letter k in upper case
Variant(i) == [k \in 1..5 |-> IF (i \div (2 ^ (k - 1))) % 2 = 1 THEN 88 ELSE 120]

Variants == {Variant(i) : i \in 0..(MaxVariants - 1)}

Words == ShortWords \cup Variants

\* "", "a", "AB", "c", "xx", "XXXXX"
Prefixes ==
    { <<>>, <<97>>, <<65, 66>>, <<99>>, <<120, 120>>, <<88, 88, 88, 88, 88>> }

Limits == (0..MaxLimit) \cup {DefaultLimit, SuggestLimit}

\* self.trie.insert(word); the spellings of "xxxxx" arrive in the order of
\* their numbers
TrieInsertCall ==
    /\ \E w \in Words :
        /\ w \in Variants => w = Variant(Cardinality(inserted \cap Variants))
        /\ trie' = TrieInsert(trie, w)
        /\ inserted' = inserted \cup {w}
        /\ ret' = [call |-> "insert", word |-> w, limit |-> 0, out |-> <<>>]
    /\ UNCHANGED <<dll, history_stack, play_counts, starts, shuffle_on, current,
                   node_by_title, paused, mixer, playlist, sel, status, msg,
                   tree, timers, polls>>
    /\ UNCHANGED trip

\* self.trie.prefix_search(prefix, limit)
TrieSearchCall ==
    /\ \E p \in Prefixes : \E l \in Limits :
        ret' = [call |-> "search", word |-> p, limit |-> l,
                out |-> PrefixSearch(trie, p, l)]
    /\ UNCHANGED <<dll, history_stack, play_counts, starts, trie, shuffle_on, current,
                   node_by_title, paused, mixer, playlist, sel, status, msg,
                   tree, timers, polls, inserted>>
    /\ UNCHANGED trip

NextTrie == TrieInsertCall \/ TrieSearchCall

SpecTrie == Init /\ [][NextTrie]_vars

----------------------------------------------------------------------------
(* The Ledger on its own: plays recorded and rankings asked in any order *)

\* the titles of folder "/A": "B", "a", "c"
LedgerTitles == { <<66>>, <<97>>, <<99>> }

\* the line of play_node that records a play of title
RecordPlay ==
    /\ TotalPlays < MaxPlays
    /\ \E t \in LedgerTitles :
        /\ play_counts' = CountsAfterPlay(play_counts, t)
        /\ ret' = [call |-> "record", word |-> t, limit |-> 0, out |-> <<>>]
    /\ UNCHANGED <<dll, history_stack, trie, shuffle_on, current, node_by_title,
                   paused, mixer, playlist, sel, status, msg, tree, timers, polls,
                   inserted, trip, starts>>

\* show_top_played(top_k)
TopKCall ==
    /\ \E k \in 0..MaxK :
        /\ IF DOMAIN play_counts = {}
           THEN msg' = "No play history yet" /\ UNCHANGED tree
           ELSE tree' = TopItems(play_counts, k) /\ msg' = ""
        /\ ret' = [call |-> "top", word |-> <<>>, limit |-> k, out |-> <<>>]
    /\ UNCHANGED <<dll, history_stack, play_counts, starts, trie, shuffle_on, current,
                   node_by_title, paused, mixer, playlist, sel, status, timers, polls,
                   inserted, trip>>

NextLedger == RecordPlay \/ TopKCall

SpecLedger == Init /\ [][NextLedger]_vars

----------------------------------------------------------------------------
(* The DoublyLinkedList on its own: append, clear and from_nodes in any    *)
(* order.  dll.nodes keeps every Node object created, in the list or not.  *)

\* the lists of distinct nodes among the Node objects 1..n
DistinctLists(n) ==
    UNION {{f \in [1..k -> 1..n] : \A i, j \in 1..k : f[i] = f[j] => i = j} : k \in 0..n}

\* self.dll.append(title, path)
DllAppendCall ==
    /\ Len(dll.nodes) < MaxNodes
    /\ \E t \in LedgerTitles :
        /\ dll' = DllAppend(dll, t, PathJoin(<<47, 65>>, t))
        /\ ret' = [call |-> "append", word |-> t, limit |-> 0, out |-> <<>>]
    /\ UNCHANGED <<history_stack, play_counts, starts, trie, shuffle_on, current,
                   node_by_title, paused, mixer, playlist, sel, status, msg,
                   tree, timers, polls, inserted, trip>>

\* self.dll.clear()
DllClearCall ==
    /\ dll' = DllClear(dll)
    /\ ret' = [call |-> "clear", word |-> <<>>, limit |-> 0, out |-> <<>>]
    /\ UNCHANGED <<history_stack, play_counts, starts, trie, shuffle_on, current,
                   node_by_title, paused, mixer, playlist, sel, status, msg,
                   tree, timers, polls, inserted, trip>>

\* self.dll.from_nodes(nodes), nodes a list of distinct Node objects
DllFromNodesCall ==
    /\ \E nodes \in DistinctLists(Len(dll.nodes)) :
        /\ dll' = DllFromNodes(dll, nodes)
        /\ ret' = [call |-> "from_nodes", word |-> nodes, limit |-> 0, out |-> <<>>]
    /\ UNCHANGED <<history_stack, play_counts, starts, trie, shuffle_on, current,
                   node_by_title, paused, mixer, playlist, sel, status, msg,
                   tree, timers, polls, inserted, trip>>

NextDll == DllAppendCall \/ DllClearCall \/ DllFromNodesCall

SpecDll == Init /\ [][NextDll]_vars

----------------------------------------------------------------------------
(* Claims about the application, checked under Spec *)

\* the titles of the Sequence, from head to tail
SequenceTitles ==
    LET nodes == ToList(dll) IN [i \in 1..Len(nodes) |-> dll.nodes[nodes[i]].title]

\* C1 as stated: while the status shows that the last playback command was
\* a pause or a stop, a poll tick changes neither the current track, the
\* History or the Ledger, and starts no playback (ticks in which a load
\* fails are left aside).
C1_PollIdleWhenPausedOrStopped ==
    [][ (status.kind \in {"Paused", "Stopped"} /\ msg' = "" /\ PollPlayback)
            => /\ current' = current
               /\ history_stack' = history_stack
               /\ play_counts' = play_counts
               /\ mixer' = mixer ]_vars

\* C2: a handler whose load failed leaves the current track and the Ledger
\* as they were, and the Ledger changes only in a step that loads and plays
\* the track that becomes current, adding one to its title alone.
C2_FailedLoadKeepsState ==
    [][ /\ (msg' = "Playback error")
            => (current' = current /\ play_counts' = play_counts)
        /\ (play_counts' # play_counts)
            => /\ msg' = ""
               /\ current' # None
               /\ mixer' = "playing"
               /\ play_counts' =
                     CountsAfterPlay(play_counts, dll.nodes[current'].title) ]_vars

\* C2 witness: with a track playing, a later load failed
C2_Witness ==
    /\ msg = "Playback error"
    /\ current # None
    /\ status.kind = "Playing"
    /\ dll.size > 1

\* C3 as stated: once a folder load has found a file and no handler has
\* changed the status since, History and Ledger are empty, no track is
\* current, and Sequence, Registry and Title Index hold the loaded tracks.
C3_ReloadClearsAll ==
    status.kind = "Loaded" =>
        /\ history_stack = <<>>
        /\ DOMAIN play_counts = {}
        /\ current = None
        /\ SequenceTitles = playlist
        /\ Len(playlist) = status.arg[1]
        /\ DOMAIN node_by_title = {playlist[i] : i \in 1..Len(playlist)}
        /\ inserted = {playlist[i] : i \in 1..Len(playlist)}

\* C4: a folder load that finds no audio file changes nothing but the
\* message box it shows; the engine is not stopped.
C4_EmptyFolderUntouched ==
    [][ (msg' = "No audio" /\ LoadFolderCmd)
            => UNCHANGED <<dll, node_by_title, trie, inserted, history_stack,
                           play_counts, current, paused, mixer, playlist, sel,
                           status, shuffle_on>> ]_vars

\* C4 witness: the empty folder was opened while a track played, with a
\* track on the back stack
C4_Witness ==
    /\ msg = "No audio"
    /\ mixer = "playing"
    /\ current # None
    /\ history_stack # <<>>
    /\ DOMAIN play_counts # {}

\* C5: next_song without shuffle at the tail reports the end of the
\* playlist and changes neither the current track, History, Ledger nor
\* the engine.
C5_TailDoesNotWrap ==
    [][ (~shuffle_on /\ current # None /\ current = dll.tail /\ NextSong)
            => /\ status'.kind = "End of playlist"
               /\ current' = current
               /\ history_stack' = history_stack
               /\ play_counts' = play_counts
               /\ mixer' = mixer ]_vars

\* C5 witness: the end of the playlist was reported at the tail of a
\* sequence of several tracks
C5_Witness ==
    /\ status.kind = "End of playlist"
    /\ ~shuffle_on
    /\ current # None
    /\ current = dll.tail
    /\ dll.size > 1

BackOnEmpty ==
    (history_stack = <<>> /\ PrevSong)
        => /\ status'.kind = "No previous song"
           /\ current' = current
           /\ play_counts' = play_counts

\* C7 as stated: after next_song without shuffle from a track A that is not
\* the tail, the successor of A is current; after a prev_song right after
\* it, A is current and History is what it was before the next_song; and
\* goBack on an empty History reports it and changes nothing.
C7_RoundTripAlways ==
    /\ [](trip.stage = 1 => current = dll.nodes[trip.from].next)
    /\ [](trip.stage = 2 => current = trip.from /\ history_stack = trip.hist)
    /\ [][BackOnEmpty]_vars

\* C7 amended: the same whenever the loads succeed (the next_song's for its
\* part, both for the round trip).
C7_RoundTripWhenLoadsSucceed ==
    /\ []((trip.stage = 1 /\ trip.ok)
            => /\ current = dll.nodes[trip.from].next
               /\ history_stack = Append(trip.hist, trip.from))
    /\ []((trip.stage = 2 /\ trip.ok)
            => current = trip.from /\ history_stack = trip.hist)
    /\ [][BackOnEmpty]_vars

\* C7 witness: a round trip from a track with a non-empty History was
\* completed
C7_Witness ==
    /\ trip.stage = 2
    /\ trip.ok
    /\ trip.hist # <<>>
    /\ current = trip.from

\* C8 as stated: a play-selected, next_song or Top Played play that loads
\* its track and pushes onto History pushes the track that was current and
\* makes a different track current, so the top of History is not the
\* current track.
C8_PushOnlyOnChange ==
    [][ (msg' = "" /\ history_stack' # history_stack
            /\ (PlaySelected \/ NextSong \/ PlaySel))
            => /\ current # None
               /\ history_stack' = Append(history_stack, current)
               /\ current' # current
               /\ history_stack'[Len(history_stack')] # current' ]_vars

\* C12: in every reachable state the Ledger holds, for each title, the
\* number of loads of that title that succeeded, and no entry for a title
\* with none; a step in which a load succeeds adds exactly 1 to the count of
\* the loaded title and changes no other entry; every other step (a folder
\* load, pause, stop, a failed load, the ranking, a poll tick that plays
\* nothing) leaves the Ledger unchanged.
C12_LedgerCountsStarts ==
    /\ [](play_counts = starts)
    /\ [][ /\ (starts' # starts) =>
                \E t \in DOMAIN starts' :
                    /\ starts' = StartsAfter(starts, t)
                    /\ DOMAIN play_counts' = (DOMAIN play_counts) \cup {t}
                    /\ play_counts'[t] =
                          (IF t \in DOMAIN play_counts THEN play_counts[t] ELSE 0) + 1
                    /\ \A u \in (DOMAIN play_counts) \ {t} :
                           play_counts'[u] = play_counts[u]
           /\ (starts' = starts) => play_counts' = play_counts
           /\ ( \/ msg' = "Playback error"
                 \/ msg' = "No audio"
                 \/ status'.kind \in {"End of playlist", "No previous song"}
                 \/ TogglePause \/ StopSong \/ ShowTopPlayed \/ ToggleShuffle
                 \/ SelectRow \/ TrackEnds )
                    => play_counts' = play_counts ]_vars

\* C12 witness: one title was played twice and another once, and the last
\* handler's load failed
C12_Witness ==
    /\ msg = "Playback error"
    /\ Cardinality(DOMAIN play_counts) = 2
    /\ \E t \in DOMAIN play_counts : play_counts[t] = 2 /\ starts[t] = 2

\* togglePause with no current track issues no command and changes nothing
\* (the status "Resumed" is set in the branch that calls engine.resume())
ToggleWithoutTrackIdle ==
    (current = None /\ TogglePause)
        => /\ status' = status
           /\ mixer' = mixer
           /\ paused' = paused

\* togglePause with a current track pauses a playing track and resumes a
\* paused one
ToggleAlternates ==
    (current # None /\ TogglePause)
        => /\ (mixer = "playing" /\ ~paused)
                => (mixer' = "paused" /\ paused' /\ status'.kind = "Paused")
           /\ (mixer = "paused" /\ paused)
                => (mixer' = "playing" /\ ~paused' /\ status'.kind = "Resumed")

\* C13 as stated: togglePause is a no-op when no track is current (no pause
\* or resume command is issued, nothing changes), and with a current track
\* it alternates between Playing (by resume) and Paused (by pause).
C13_TogglePauseNoOpWithoutTrack ==
    [][ToggleWithoutTrackIdle /\ ToggleAlternates]_vars

\* C14 as stated: play_selected with no row selected plays the head node of
\* the Sequence, whatever folder was loaded, and on an empty Sequence it
\* changes nothing (steps in which the load fails are left aside).
C14_NoSelectionPlaysHead ==
    [][ (sel = 0 /\ msg' = "" /\ PlaySelected)
            => IF dll.head = None
               THEN UNCHANGED <<current, history_stack, play_counts, mixer,
                                paused, status, sel>>
               ELSE current' = dll.head /\ mixer' = "playing" ]_vars

\* the extension of a file name: from its last dot on, "" without a dot
Ext(name) ==
    LET dots == {i \in 1..Len(name) : name[i] = 46}
    IN IF dots = {} THEN <<>>
       ELSE SubSeq(name, CHOOSE i \in dots : \A j \in dots : j <= i, Len(name))

\* the file is eligible: its extension is .mp3, .wav or .ogg in any case
Eligible(name) == \E i \in 1..Len(AUDIO_EXTS) : LowerStr(Ext(name)) = AUDIO_EXTS[i]

\* C16: once a folder is loaded, to_list() holds exactly one node for each
\* eligible file of that folder (files sharing a title each have theirs) and
\* none for any other file, each node titled by its file name without the
\* extension, in non-decreasing order of lowercased title.
C16_OneNodePerEligibleFile ==
    dll.head # None =>
        LET nodes == ToList(dll)
            Path(i) == dll.nodes[nodes[i]].path
            Title(i) == dll.nodes[nodes[i]].title
        IN /\ \E f \in Folders :
                /\ \A n \in f.files :
                       Cardinality({i \in 1..Len(nodes) : Path(i) = PathJoin(f.path, n)})
                           = (IF Eligible(n) THEN 1 ELSE 0)
                /\ \A i \in 1..Len(nodes) : \E n \in f.files :
                       /\ Path(i) = PathJoin(f.path, n)
                       /\ Title(i) \o Ext(n) = n
           /\ \A i \in 1..(Len(nodes) - 1) :
                  ~StrLess(LowerStr(Title(i + 1)), LowerStr(Title(i)))

\* C16 witness: folder "/A" (B.mp3, a.WAV, c.ogg, n.txt) is loaded as
\* "a", "B", "c"
C16_Witness ==
    /\ status.kind = "Loaded"
    /\ SequenceTitles = << <<97>>, <<66>>, <<99>> >>
    /\ dll.nodes[dll.head].path = <<47, 65, 47, 97, 46, 87, 65, 86>>

\* C18 as stated: a next_song, play_selected or prev_song whose load fails
\* leaves History, the current track and the Ledger as they were.
C18_FailedPlayKeepsHistory ==
    [][ (msg' = "Playback error" /\ (NextSong \/ PlaySelected \/ PrevSong))
            => /\ history_stack' = history_stack
               /\ current' = current
               /\ play_counts' = play_counts ]_vars

\* the nodes of the Sequence
LiveNodes(d) == LET nodes == ToList(d) IN {nodes[i] : i \in 1..Len(nodes)}

\* C19: in every reachable state the current track, every History entry
\* and every node of the title lookup is a node of the loaded Sequence (or
\* null, for the current track); a folder load that replaces the Sequence
\* leaves no current track and an empty History, so that no reference to a
\* node of the old Sequence survives it; and a poll with no current track
\* plays nothing and changes nothing.
C19_NoDanglingReferences ==
    /\ [](/\ current \in LiveNodes(dll) \cup {None}
          /\ \A i \in 1..Len(history_stack) : history_stack[i] \in LiveNodes(dll)
          /\ \A t \in DOMAIN node_by_title : node_by_title[t] \in LiveNodes(dll))
    /\ [][ (msg' # "No audio" /\ LoadFolderCmd)
                => (current' = None /\ history_stack' = <<>>) ]_vars
    /\ [][ (current = None /\ PollPlayback)
                => UNCHANGED <<current, history_stack, play_counts, mixer, paused,
                               status>> ]_vars

\* C19 witness: after tracks were played, a folder with a single track was
\* loaded, and no reference is left
C19_Witness ==
    /\ status.kind = "Loaded"
    /\ dll.size = 1
    /\ Cardinality(DOMAIN play_counts) > 1
    /\ current = None
    /\ history_stack = <<>>

----------------------------------------------------------------------------
(* Claims about the Trie, checked under SpecTrie *)

\* p, lowercased, is a prefix of T, lowercased
IsPrefixCI(p, T) ==
    /\ Len(p) <= Len(T)
    /\ LowerStr(SubSeq(T, 1, Len(p))) = LowerStr(p)

\* the inserted titles that p matches
Matching(p) == {T \in inserted : IsPrefixCI(p, T)}

\* the inserted titles spelled like T up to case
Spellings(T) == {U \in inserted : LowerStr(U) = LowerStr(T)}

\* T is still in the ends list of its terminal node
Stored(T) ==
    /\ LowerStr(T) \in DOMAIN trie
    /\ InSeq(T, trie[LowerStr(T)].ends)

\* C9 as stated: after any inserts, a search for a prefix p of an inserted
\* title T, with limit at least the number of inserted titles that p
\* matches, returns T.
C9_EveryInsertedFound ==
    ret.call = "search" =>
        \A T \in inserted :
            (IsPrefixCI(ret.word, T) /\ ret.limit >= Cardinality(Matching(ret.word)))
                => InSeq(T, ret.out)

\* C9 amended: the same for every inserted title T that the cap of 20 on its
\* terminal node has not evicted, which covers every T of which at most 20
\* spellings (titles equal to T up to case) were inserted.
C9_StoredFound ==
    ret.call = "search" =>
        \A T \in inserted :
            ( /\ Cardinality(Spellings(T)) <= EndsCap \/ Stored(T)
              /\ IsPrefixCI(ret.word, T)
              /\ ret.limit >= Cardinality(Matching(ret.word)) )
                => InSeq(T, ret.out)

\* C9 witness: more than 20 spellings of "xxxxx" were inserted, and the
\* search for "XXXXX" returned the newest one and not the evicted first one
C9_Witness ==
    /\ ret.call = "search"
    /\ ret.limit >= Cardinality(Matching(ret.word))
    /\ Cardinality(inserted \cap Variants) > EndsCap
    /\ ret.word = <<88, 88, 88, 88, 88>>
    /\ InSeq(Variant(EndsCap), ret.out)
    /\ ~InSeq(Variant(0), ret.out)

\* C10: a search result lists a strictly shorter title before a longer one,
\* has no duplicates and at most limit entries, and is empty when the
\* lowercased prefix leads to no node of the trie.
C10_BreadthFirstOrder ==
    ret.call = "search" =>
        /\ \A i, j \in 1..Len(ret.out) :
               Len(ret.out[i]) < Len(ret.out[j]) => i < j
        /\ \A i, j \in 1..Len(ret.out) : ret.out[i] = ret.out[j] => i = j
        /\ Len(ret.out) <= ret.limit
        /\ LowerStr(ret.word) \notin DOMAIN trie => ret.out = <<>>

\* C10 witness: "a" was the first child of the root, and the search from the
\* root still returned "b" before the deeper "ab"
C10_Witness ==
    /\ ret.call = "search"
    /\ ret.word = <<>>
    /\ Len(trie[<<>>].children) > 0
    /\ trie[<<>>].children[1] = 97
    /\ \E i, j \in 1..Len(ret.out) :
           i < j /\ ret.out[i] = <<98>> /\ ret.out[j] = <<97, 98>>

----------------------------------------------------------------------------
(* Claims about the Ledger, checked under SpecLedger *)

\* C11: the ranking that show_top_played(k) shows has min(k, number of
\* Ledger entries) rows of distinct titles, each with the Ledger count of its
\* title, in non-increasing order of count; a title that alone has the
\* largest count is the first row whenever k >= 1; and the call leaves the
\* Ledger unchanged.
C11_TopKReadOnly ==
    /\ [](ret.call = "top" =>
            /\ Len(tree) = Min(ret.limit, Cardinality(DOMAIN play_counts))
            /\ \A i \in 1..Len(tree) :
                   /\ tree[i].title \in DOMAIN play_counts
                   /\ tree[i].count = play_counts[tree[i].title]
            /\ \A i, j \in 1..Len(tree) :
                   /\ i < j => tree[i].count >= tree[j].count
                   /\ tree[i].title = tree[j].title => i = j
            /\ \A t \in DOMAIN play_counts :
                   ( /\ ret.limit >= 1
                     /\ \A u \in DOMAIN play_counts \ {t} :
                            play_counts[u] < play_counts[t] )
                       => tree[1] = [title |-> t, count |-> play_counts[t]])
    /\ [][TopKCall => play_counts' = play_counts]_vars

\* C11 witness: topK(1) on a Ledger of several titles returned the title
\* that was recorded MaxPlays - 1 times, the unique maximum
C11_Witness ==
    /\ ret.call = "top"
    /\ ret.limit = 1
    /\ Cardinality(DOMAIN play_counts) > 1
    /\ Len(tree) = 1
    /\ tree[1].count = MaxPlays - 1
    /\ tree[1].title = <<99>>

----------------------------------------------------------------------------
(* Claims about the DoublyLinkedList, checked under SpecDll *)

\* follow prev from cur, at most fuel nodes
RECURSIVE WalkBack(_, _, _)
WalkBack(d, cur, fuel) ==
    IF cur = None \/ fuel = 0 THEN <<>>
    ELSE <<cur>> \o WalkBack(d, d.nodes[cur].prev, fuel - 1)

Reverse(s) == [i \in 1..Len(s) |-> s[Len(s) + 1 - i]]

\* the list d is well formed; the walks are given one step more than there
\* are Node objects, so that a cycle shows as a repeated node
WellFormed(d) ==
    LET fwd == Walk(d, d.head, Len(d.nodes) + 1)
        bwd == WalkBack(d, d.tail, Len(d.nodes) + 1)
    IN /\ \A i, j \in 1..Len(fwd) : fwd[i] = fwd[j] => i = j
       /\ d.head # None => d.nodes[d.head].prev = None
       /\ d.tail # None => d.nodes[d.tail].next = None
       /\ fwd # <<>> => fwd[Len(fwd)] = d.tail
       /\ bwd = Reverse(fwd)
       /\ d.size = Len(fwd)
       /\ (d.head = None) = (d.tail = None)
       /\ (d.head = None) = (d.size = 0)

\* C15: after any sequence of append, clear and from_nodes on lists of
\* distinct nodes the list is well formed (acyclic, head.prev and tail.next
\* null, next from head ends at tail having visited size nodes once each,
\* prev from tail visits them in reverse, head and tail null exactly when
\* it is empty); append adds the new node at the end, clear empties the list
\* and from_nodes makes it the given nodes in the given order.
C15_SequenceWellFormed ==
    /\ [](WellFormed(dll))
    /\ [](ret.call = "from_nodes" => ToList(dll) = ret.word)
    /\ [](ret.call = "clear" => ToList(dll) = <<>>)
    /\ [][DllAppendCall => ToList(dll') = Append(ToList(dll), Len(dll.nodes) + 1)]_vars

\* C15 witness: from_nodes rebuilt the list from all the nodes of a longer
\* list in another order, the old tail now first
C15_Witness ==
    /\ ret.call = "from_nodes"
    /\ Len(ret.word) = MaxNodes
    /\ ret.word[1] = MaxNodes
    /\ dll.head = MaxNodes
    /\ dll.tail # MaxNodes
    /\ dll.size = MaxNodes

----------------------------------------------------------------------------
(* Claims about the poll, checked under SpecPoll *)

\* the back stack is at the depth where the model stops pushing
HistFull == Len(history_stack) >= MaxHist

\* C17: in every reachable state exactly one poll callback is pending, and a
\* poll leaves exactly one pending whatever it did (an advance that failed,
\* the end of the playlist, nothing at all), as does a folder load; so the
\* poll runs again and again (states in which the back stack is at the depth
\* where the model stops pushing are left aside).
C17_PollAlwaysRearmed ==
    /\ [](timers = 1)
    /\ [][(PollTick \/ LoadFolderCmd) => timers' = 1]_vars
    /\ []<>(polls = 0 \/ HistFull)
    /\ []<>(polls = 1 \/ HistFull)

\* C17 witness: a poll tried to advance and the load failed, and one
\* callback is pending
C17_Witness ==
    /\ msg = "Playback error"
    /\ trip.stage = 1
    /\ polls = 1
    /\ timers = 1
    /\ ~HistFull

----------------------------------------------------------------------------
(* Claims about natural progression, checked under SpecAuto *)

\* C20: with shuffle off, once a track is current, every change of the
\* current track goes to its immediate successor and pushes the track left;
\* the tail eventually is current and stays so for ever, the status ending
\* at "End of playlist"; and a poll at the tail changes neither the current
\* track nor History.
C20_ProgressionEndsAtTail ==
    /\ [][ (current # None /\ current' # current)
                => /\ current' = dll.nodes[current].next
                   /\ history_stack' = Append(history_stack, current) ]_vars
    /\ [](current # None => <>[](current = dll.tail))
    /\ [](current # None => <>[](status.kind = "End of playlist"))
    /\ [][ (current # None /\ current = dll.tail /\ AutoTick)
                => /\ current' = current
                   /\ history_stack' = history_stack
                   /\ status' = status \/ status'.kind = "End of playlist" ]_vars

\* C20 witness: the poll went from the head of three tracks to the tail and
\* reported the end of the playlist
C20_Witness ==
    /\ dll.size = 3
    /\ current = dll.tail
    /\ history_stack = <<dll.head, dll.nodes[dll.head].next>>
    /\ status.kind = "End of playlist"
    /\ ~shuffle_on

====
